---- MODULE Spec2Model ----
\* Model of the FTXUI text input component (src/ftxui/component/input.cpp):
\* the InputBase event handlers, the renderer's cursor handling and the
\* line splitter, over byte strings with a byte-offset cursor.
EXTENDS Integers, Sequences, FiniteSets, TLC

VARIABLES
  content,          \* *content : the externally owned byte buffer
  cursor_position,  \* cursor_position() : int byte offset (externally visible)
  multiline,        \* InputOption::multiline
  insert,           \* InputOption::insert (TRUE = insert mode, FALSE = overwrite)
  max_input_len,    \* InputOption::max_input_len
  placeholder,      \* *placeholder
  last              \* record of the last call made on the component

vars == <<content, cursor_position, multiline, insert, max_input_len, placeholder, last>>

----------------------------------------------------------------------------
\* Bounds of the model.

\* Longest buffer an external writer produces.
MaxContentLen == 2
\* Largest configured max_input_len.
MaxInputLenBound == 3
\* How far outside [0, MaxContentLen] an external writer leaves the cursor.
CursorSlack == 1
\* Longest buffer a handler is called on by itself.
MaxUnitLen == 3

----------------------------------------------------------------------------
\* Bytes and strings.

\* '\n'
NL == 10

\* The bytes the buffers are made of: '\n', 'a', the lead byte 0xC3 of a
\* two-byte UTF-8 sequence and the continuation byte 0xA9 ("é" = C3 A9).
Bytes == {NL, 97, 195, 169}

\* The character() of the character events: "a" and "é".
Characters == {<<97>>, <<195, 169>>}

\* The placeholders: "" and "a".
Placeholders == {<<>>, <<97>>}

Min(a, b) == IF a < b THEN a ELSE b
Max(a, b) == IF a > b THEN a ELSE b

\* The smallest element of a non-empty set of integers.
SetMin(S) == CHOOSE x \in S : \A y \in S : x <= y
\* The largest element of a non-empty set of integers.
SetMax(S) == CHOOSE x \in S : \A y \in S : x >= y

\* (byte & 0xC0) == 0x80 : a UTF-8 continuation byte.
IsContinuation(b) == b >= 128 /\ b < 192
\* A lead byte of a two-byte sequence (110xxxxx).
IsLead2(b) == b >= 192 /\ b < 224

\* Offset o (0-based) of buffer is the start of a code point or its end.
IsBoundary(buffer, o) ==
  /\ 0 <= o
  /\ o <= Len(buffer)
  /\ (o < Len(buffer) => ~IsContinuation(buffer[o + 1]))

\* Every lead byte is followed by a continuation byte and every continuation
\* byte follows a lead byte: the buffer is a sequence of whole code points.
WellFormed(buffer) ==
  \A i \in 1..Len(buffer) :
    /\ IsLead2(buffer[i]) => (i < Len(buffer) /\ IsContinuation(buffer[i + 1]))
    /\ IsContinuation(buffer[i]) => (i > 1 /\ IsLead2(buffer[i - 1]))

\* std::string::substr(0, n) on a string of at least n bytes.
Take(s, n) == [i \in 1..Min(Max(n, 0), Len(s)) |-> s[i]]
\* std::string::substr(n).
Drop(s, n) == [i \in 1..(Len(s) - Min(Max(n, 0), Len(s))) |-> s[i + Min(Max(n, 0), Len(s))]]

\* std::string::erase(start, n).
Erase(s, start, n) == Take(s, start) \o Drop(s, start + Max(n, 0))
\* std::string::insert(pos, str).
Insert(s, pos, str) == Take(s, pos) \o str \o Drop(s, pos)

\* util::clamp(v, lo, hi).
Clamp(v, lo, hi) == IF v < lo THEN lo ELSE IF v > hi THEN hi ELSE v

\* GlyphNext(input, start): the smallest offset > start that starts a code
\* point, or Len(input).
GlyphNext(input, start) ==
  LET next == {o \in (start + 1)..(Len(input) - 1) : ~IsContinuation(input[o + 1])}
  IN  IF next = {} THEN Len(input) ELSE SetMin(next)

\* GlyphPrevious(input, start): the largest offset < start that starts a code
\* point, or 0.
GlyphPrevious(input, start) ==
  LET prev == {o \in 0..(start - 1) : o < Len(input) /\ ~IsContinuation(input[o + 1])}
  IN  IF prev = {} THEN 0 ELSE SetMax(prev)

----------------------------------------------------------------------------
\* The handlers. Each takes and returns a record
\*   [content, cursor, calls, handled]
\* where calls is the sequence of callbacks invoked so far in this call and
\* handled is the handler's return value.

\* HandleBackspace reporting the key handled when the cursor is at 0.
HandleBackspace_HandledAtZero(st) ==
  IF st.cursor = 0
  THEN [st EXCEPT !.handled = TRUE]
  ELSE LET start == GlyphPrevious(st.content, st.cursor)
           end == st.cursor
       IN  [st EXCEPT !.content = Erase(st.content, start, end - start),
                      !.cursor = start,
                      !.handled = TRUE]

\* HandleBackspace erasing one byte instead of one glyph.
HandleBackspace_OneByte(st) ==
  IF st.cursor = 0
  THEN [st EXCEPT !.handled = FALSE]
  ELSE LET start == st.cursor - 1
           end == st.cursor
       IN  [st EXCEPT !.content = Erase(st.content, start, end - start),
                      !.cursor = start,
                      !.handled = TRUE]

\* HandleBackspace erasing the glyph and leaving the cursor where it was.
HandleBackspace_KeepCursor(st) ==
  IF st.cursor = 0
  THEN [st EXCEPT !.handled = FALSE]
  ELSE LET start == GlyphPrevious(st.content, st.cursor)
           end == st.cursor
       IN  [st EXCEPT !.content = Erase(st.content, start, end - start),
                      !.handled = TRUE]

\* bool HandleBackspace()
HandleBackspace(st) ==
  IF st.cursor = 0
  THEN [st EXCEPT !.handled = FALSE]
  ELSE LET start == GlyphPrevious(st.content, st.cursor)
           end == st.cursor
       IN  [st EXCEPT !.content = Erase(st.content, start, end - start),
                      !.cursor = start,
                      !.handled = TRUE]

\* HandleArrowUp reporting the key handled wherever the cursor is.
HandleArrowUp_AlwaysHandled(st) == [st EXCEPT !.handled = TRUE]

\* bool HandleArrowUp()
HandleArrowUp(st) ==
  IF st.cursor = Len(st.content)
  THEN [st EXCEPT !.handled = FALSE]
  ELSE [st EXCEPT !.handled = TRUE]

\* bool HandleArrowDown()
HandleArrowDown(st) ==
  IF st.cursor = Len(st.content)
  THEN [st EXCEPT !.handled = FALSE]
  ELSE [st EXCEPT !.handled = TRUE]

\* HandleDelete erasing one byte instead of one glyph.
HandleDelete_OneByte(st) ==
  IF st.cursor = Len(st.content)
  THEN [st EXCEPT !.handled = FALSE]
  ELSE LET start == st.cursor
           end == st.cursor + 1
       IN  [st EXCEPT !.content = Erase(st.content, start, end - start),
                      !.handled = TRUE]

\* bool HandleDelete()
HandleDelete(st) ==
  IF st.cursor = Len(st.content)
  THEN [st EXCEPT !.handled = FALSE]
  ELSE LET start == st.cursor
           end == GlyphNext(st.content, st.cursor)
       IN  [st EXCEPT !.content = Erase(st.content, start, end - start),
                      !.handled = TRUE]

\* HandleCharacter rejecting only when the buffer is longer than the maximum.
HandleCharacter_StrictLimit(st, character) ==
  IF Len(st.content) > max_input_len
  THEN [st EXCEPT !.handled = TRUE]
  ELSE LET d == IF /\ ~insert
                   /\ st.cursor < Len(st.content)
                   /\ st.content[st.cursor + 1] # NL
                THEN HandleDelete(st)
                ELSE st
       IN  [content |-> Insert(d.content, d.cursor, character),
            cursor  |-> d.cursor + Len(character),
            calls   |-> Append(d.calls, "on_change"),
            handled |-> TRUE]

\* HandleCharacter advancing the cursor by one byte whatever the character.
HandleCharacter_AdvanceOne(st, character) ==
  IF Len(st.content) >= max_input_len
  THEN [st EXCEPT !.handled = TRUE]
  ELSE LET d == IF /\ ~insert
                   /\ st.cursor < Len(st.content)
                   /\ st.content[st.cursor + 1] # NL
                THEN HandleDelete(st)
                ELSE st
       IN  [content |-> Insert(d.content, d.cursor, character),
            cursor  |-> d.cursor + 1,
            calls   |-> Append(d.calls, "on_change"),
            handled |-> TRUE]

\* HandleCharacter overwriting a newline like any other byte.
HandleCharacter_OverwriteNewline(st, character) ==
  IF Len(st.content) >= max_input_len
  THEN [st EXCEPT !.handled = TRUE]
  ELSE LET d == IF /\ ~insert
                   /\ st.cursor < Len(st.content)
                THEN HandleDelete(st)
                ELSE st
       IN  [content |-> Insert(d.content, d.cursor, character),
            cursor  |-> d.cursor + Len(character),
            calls   |-> Append(d.calls, "on_change"),
            handled |-> TRUE]

\* HandleCharacter calling on_change for a rejected character too.
HandleCharacter_NotifyRejected(st, character) ==
  IF Len(st.content) >= max_input_len
  THEN [st EXCEPT !.calls = Append(st.calls, "on_change"), !.handled = TRUE]
  ELSE LET d == IF /\ ~insert
                   /\ st.cursor < Len(st.content)
                   /\ st.content[st.cursor + 1] # NL
                THEN HandleDelete(st)
                ELSE st
       IN  [content |-> Insert(d.content, d.cursor, character),
            cursor  |-> d.cursor + Len(character),
            calls   |-> Append(d.calls, "on_change"),
            handled |-> TRUE]

\* bool HandleCharacter(const std::string& character)
HandleCharacter(st, character) ==
  IF Len(st.content) >= max_input_len
  THEN [st EXCEPT !.handled = TRUE]
  ELSE LET d == IF /\ ~insert
                   /\ st.cursor < Len(st.content)
                   /\ st.content[st.cursor + 1] # NL
                THEN HandleDelete(st)
                ELSE st
       IN  [content |-> Insert(d.content, d.cursor, character),
            cursor  |-> d.cursor + Len(character),
            calls   |-> Append(d.calls, "on_change"),
            handled |-> TRUE]

\* HandleReturn returning HandleCharacter's result when multiline is on,
\* without reaching on_enter.
HandleReturn_EarlyReturn(st) ==
  IF multiline
  THEN HandleCharacter(st, <<NL>>)
  ELSE [st EXCEPT !.calls = Append(st.calls, "on_enter"), !.handled = TRUE]

\* HandleReturn calling on_enter before inserting the newline.
HandleReturn_EnterFirst(st) ==
  LET e == [st EXCEPT !.calls = Append(st.calls, "on_enter")]
      c == IF multiline THEN HandleCharacter(e, <<NL>>) ELSE e
  IN  [c EXCEPT !.handled = TRUE]

\* bool HandleReturn()
HandleReturn(st) ==
  LET c == IF multiline THEN HandleCharacter(st, <<NL>>) ELSE st
  IN  [c EXCEPT !.calls = Append(c.calls, "on_enter"), !.handled = TRUE]

\* The events OnEvent tells apart. Other stands for every event that is not
\* one of the five the dispatcher routes (mouse, ArrowLeft, Delete, ...).
EventTypes == {"Return", "Character", "Backspace", "ArrowUp", "ArrowDown", "Other"}

\* OnEvent clamping the cursor from below only.
OnEventResult_ClampBelowOnly(type, character) ==
  LET st == [content |-> content,
             cursor  |-> Max(cursor_position, 0),
             calls   |-> <<>>,
             handled |-> FALSE]
  IN  CASE type = "Return"    -> HandleReturn(st)
        [] type = "Character" -> HandleCharacter(st, character)
        [] type = "Backspace" -> HandleBackspace(st)
        [] type = "ArrowUp"   -> HandleArrowUp(st)
        [] type = "ArrowDown" -> HandleArrowDown(st)
        [] OTHER              -> [st EXCEPT !.handled = FALSE]

\* bool OnEvent(Event event): the state and return value at its return.
OnEventResult(type, character) ==
  LET st == [content |-> content,
             cursor  |-> Clamp(cursor_position, 0, Len(content)),
             calls   |-> <<>>,
             handled |-> FALSE]
  IN  CASE type = "Return"    -> HandleReturn(st)
        [] type = "Character" -> HandleCharacter(st, character)
        [] type = "Backspace" -> HandleBackspace(st)
        [] type = "ArrowUp"   -> HandleArrowUp(st)
        [] type = "ArrowDown" -> HandleArrowDown(st)
        [] OTHER              -> [st EXCEPT !.handled = FALSE]

----------------------------------------------------------------------------
\* Rendering.

\* while (std::getline(ss, line)) output.push_back(line), reading from
\* offset pos: getline fails once no byte is left; otherwise it reads up to
\* the next '\n' (consumed, not stored) or to the end of the input.
RECURSIVE GetLines(_, _)
GetLines(input, pos) ==
  IF pos >= Len(input)
  THEN <<>>
  ELSE LET nls == {o \in pos..(Len(input) - 1) : input[o + 1] = NL}
           e == IF nls = {} THEN Len(input) ELSE SetMin(nls)
       IN  <<[i \in 1..(e - pos) |-> input[pos + i]]>> \o GetLines(input, e + 1)

\* Split without the empty line that follows a trailing newline.
Split_NoTrailingLine(input) == GetLines(input, 0)

\* Split(input) for a non-empty input.
Split(input) ==
  IF input[Len(input)] = NL
  THEN Append(GetLines(input, 0), <<>>)
  ELSE GetLines(input, 0)

\* The results Split can produce: input.back() of an empty string is
\* undefined, so the trailing empty line is then present or absent.
SplitOutcomes(input) ==
  IF input = <<>>
  THEN {<<>>, << <<>> >>}
  ELSE {Split(input)}

\* The loop that finds the line and index of the cursor: the state
\* [cursor_line, cursor_char_index] after walking lines from index i (1-based).
RECURSIVE LocateFrom(_, _, _, _)
LocateFrom(lines, i, cursor_line, cursor_char_index) ==
  IF i > Len(lines) \/ cursor_char_index <= Len(lines[i])
  THEN [cursor_line |-> cursor_line, cursor_char_index |-> cursor_char_index]
  ELSE LocateFrom(lines, i + 1, cursor_line + 1, cursor_char_index - (Len(lines[i]) + 1))

\* The loop stopping only when the index is strictly inside the line.
RECURSIVE LocateFromStrict(_, _, _, _)
LocateFromStrict(lines, i, cursor_line, cursor_char_index) ==
  IF i > Len(lines) \/ cursor_char_index < Len(lines[i])
  THEN [cursor_line |-> cursor_line, cursor_char_index |-> cursor_char_index]
  ELSE LocateFromStrict(lines, i + 1, cursor_line + 1,
                        cursor_char_index - (Len(lines[i]) + 1))

Locate_Strict(lines, cursor) == LocateFromStrict(lines, 1, 0, cursor)

\* The line and index of the cursor, from cursor_line = 0 and
\* cursor_char_index = cursor_position().
Locate(lines, cursor) == LocateFrom(lines, 1, 0, cursor)

\* password_char(): the mask character, "*".
PasswordChar == <<42>>

\* Element Text(const std::string& input): the string handed to text().
Text(input, password) ==
  IF ~password
  THEN input
  ELSE [i \in 1..(Len(input) * Len(PasswordChar)) |->
          PasswordChar[((i - 1) % Len(PasswordChar)) + 1]]

\* bool hovered_ = false, never assigned.
hovered_ == FALSE

\* const auto focused = (!is_focused && !hovered_) ? select : ...
FocusedDecorator(is_focused) ==
  IF ~is_focused /\ ~hovered_ THEN "select" ELSE "focusCursorUnderline"

\* The element built for line i (0-based) of lines: texts are the strings
\* given to Text(), in order; cursor_cell tells what reflect(cursor_box_) is
\* put on ("none", the synthetic " " cell, or the glyph at the cursor);
\* styled tells whether the focused decorator is applied in the element.
LineElement(line, i, cursor_line, cursor_char_index, password) ==
  IF i # cursor_line
  THEN [texts |-> <<Text(line, password)>>, cursor_cell |-> "none", styled |-> FALSE]
  ELSE IF cursor_char_index >= Len(line)
  THEN [texts |-> <<Text(line, password)>>, cursor_cell |-> "blank", styled |-> TRUE]
  ELSE LET glyph_start == cursor_char_index
           glyph_end == GlyphNext(line, glyph_start)
           part_before_cursor == Take(line, glyph_start)
           part_at_cursor == Take(Drop(line, glyph_start), glyph_end - glyph_start)
           part_after_cursor == Drop(line, glyph_end)
       IN  [texts |-> <<Text(part_before_cursor, password),
                        Text(part_at_cursor, password),
                        Text(part_after_cursor, password)>>,
            cursor_cell |-> "glyph", styled |-> TRUE]

\* The elements of the vbox: text("") | focused when there is no line, then
\* one element per line.
Elements(lines, cursor_line, cursor_char_index, password) ==
  (IF lines = <<>>
   THEN << [texts |-> << <<>> >>, cursor_cell |-> "none", styled |-> TRUE] >>
   ELSE <<>>)
  \o [i \in 1..Len(lines) |->
        LineElement(lines[i], i - 1, cursor_line, cursor_char_index, password)]

\* The element of the placeholder path: text(placeholder()) | xflex | frame.
PlaceholderElements ==
  << [texts |-> <<placeholder>>, cursor_cell |-> "none", styled |-> FALSE] >>

----------------------------------------------------------------------------
\* The record of the last call.

\* No accepted insertion was made by the call before the last one.
NoInsert == [valid |-> FALSE, character |-> <<>>, pre_content |-> <<>>, pre_cursor |-> 0]

NoCall ==
  [op |-> "none", event |-> "none", character |-> <<>>,
   pre_content |-> <<>>, pre_cursor |-> 0,
   handled |-> FALSE, calls |-> <<>>,
   is_placeholder |-> FALSE, split_input |-> <<0>>, lines |-> <<>>,
   cursor_line |-> 0, cursor_char_index |-> 0,
   password |-> FALSE, is_focused |-> FALSE, focused |-> "none",
   focus |-> FALSE, elements |-> <<>>, split_called |-> FALSE,
   inserted |-> NoInsert]

Configs ==
  /\ multiline \in BOOLEAN
  /\ insert \in BOOLEAN
  /\ max_input_len \in 0..MaxInputLenBound
  /\ placeholder \in Placeholders

\* After construction: an empty buffer, cursor_position 0.
Init ==
  /\ content = <<>>
  /\ cursor_position = 0
  /\ Configs
  /\ last = NoCall

UnchangedConfig == UNCHANGED <<multiline, insert, max_input_len, placeholder>>

\* The insertion the last call made, when the last call was a character
\* event that HandleCharacter accepted.
Inserted ==
  IF last.op = "OnEvent" /\ last.event = "Character" /\ last.calls # <<>>
  THEN [valid |-> TRUE, character |-> last.character,
        pre_content |-> last.pre_content, pre_cursor |-> last.pre_cursor]
  ELSE NoInsert

\* One OnEvent call.
OnEvent(type, character) ==
  LET r == OnEventResult(type, character)
  IN  /\ content' = r.content
      /\ cursor_position' = r.cursor
      /\ last' = [NoCall EXCEPT !.op = "OnEvent", !.event = type,
                                !.character = character,
                                !.pre_content = content,
                                !.pre_cursor = cursor_position,
                                !.handled = r.handled,
                                !.calls = r.calls,
                                !.inserted = Inserted]
      /\ UnchangedConfig

OnEventReturn == OnEvent("Return", <<>>)
OnEventCharacter == \E ch \in Characters : OnEvent("Character", ch)
OnEventBackspace == OnEvent("Backspace", <<>>)
OnEventArrowUp == OnEvent("ArrowUp", <<>>)
OnEventArrowDown == OnEvent("ArrowDown", <<>>)
OnEventOther == OnEvent("Other", <<>>)

\* One Render call, with the focus state and the password option it reads:
\* the placeholder path returns before Split and before the clamp; the other
\* path splits, clamps, locates the cursor and builds one element per line.
Render ==
  /\ \E is_focused \in BOOLEAN, password \in BOOLEAN :
       LET call == [NoCall EXCEPT !.op = "Render",
                                  !.pre_content = content,
                                  !.pre_cursor = cursor_position,
                                  !.password = password,
                                  !.is_focused = is_focused,
                                  !.focused = FocusedDecorator(is_focused)]
       IN  IF content = <<>> /\ Len(placeholder) > 0
           THEN /\ cursor_position' = cursor_position
                /\ last' = [call EXCEPT !.is_placeholder = TRUE,
                                        !.focus = is_focused,
                                        !.elements = PlaceholderElements]
           ELSE \E lines \in SplitOutcomes(content) :
                  LET c == Clamp(cursor_position, 0, Len(content))
                      loc == Locate(lines, c)
                  IN  /\ cursor_position' = c
                      /\ last' = [call EXCEPT
                                    !.is_placeholder = FALSE,
                                    !.split_called = TRUE,
                                    !.split_input = content,
                                    !.lines = lines,
                                    !.cursor_line = loc.cursor_line,
                                    !.cursor_char_index = loc.cursor_char_index,
                                    !.elements = Elements(lines, loc.cursor_line,
                                                          loc.cursor_char_index, password)]
  /\ UNCHANGED content
  /\ UnchangedConfig

\* The owner of the buffer appends a byte between two calls.
ExternalAppend ==
  /\ Len(content) < MaxContentLen
  /\ \E b \in Bytes : content' = Append(content, b)
  /\ last' = NoCall
  /\ UNCHANGED cursor_position
  /\ UnchangedConfig

\* The owner of the buffer clears it between two calls.
ExternalClear ==
  /\ content # <<>>
  /\ content' = <<>>
  /\ last' = NoCall
  /\ UNCHANGED cursor_position
  /\ UnchangedConfig

\* The owner of cursor_position moves it between two calls.
ExternalSetCursor ==
  /\ \E c \in (0 - CursorSlack)..(MaxContentLen + CursorSlack) :
       /\ c # cursor_position
       /\ cursor_position' = c
  /\ last' = NoCall
  /\ UNCHANGED content
  /\ UnchangedConfig

Next ==
  \/ OnEventReturn
  \/ OnEventCharacter
  \/ OnEventBackspace
  \/ OnEventArrowUp
  \/ OnEventArrowDown
  \/ OnEventOther
  \/ Render
  \/ ExternalAppend
  \/ ExternalClear
  \/ ExternalSetCursor

Spec == Init /\ [][Next]_vars

----------------------------------------------------------------------------
\* The handlers called on their own, as their callers call them: with the
\* cursor already clamped into [0, Len(content)].

AllBuffers == UNION {[1..n -> Bytes] : n \in 0..MaxUnitLen}

InitUnit ==
  /\ content \in AllBuffers
  /\ cursor_position \in 0..Len(content)
  /\ Configs
  /\ last = NoCall

CallHandler(name, r) ==
  /\ content' = r.content
  /\ cursor_position' = r.cursor
  /\ last' = [NoCall EXCEPT !.op = name,
                            !.pre_content = content,
                            !.pre_cursor = cursor_position,
                            !.handled = r.handled,
                            !.calls = r.calls]
  /\ UnchangedConfig

Clamped ==
  [content |-> content, cursor |-> cursor_position, calls |-> <<>>, handled |-> FALSE]

CallHandleBackspace == CallHandler("HandleBackspace", HandleBackspace(Clamped))
CallHandleDelete == CallHandler("HandleDelete", HandleDelete(Clamped))

NextUnit ==
  \/ CallHandleBackspace
  \/ CallHandleDelete

SpecUnit == InitUnit /\ [][NextUnit]_vars

----------------------------------------------------------------------------
\* Properties.

\* The calls of one callback in the last call.
Calls(name) == Cardinality({i \in 1..Len(last.calls) : last.calls[i] = name})

\* The cursor the handlers of the last OnEvent call started from.
ClampedPreCursor == Clamp(last.pre_cursor, 0, Len(last.pre_content))

\* C1: at the return of every OnEvent call, whatever the buffer's owner did
\* to the buffer and the cursor before it, 0 <= cursor <= len(content).
C1_CursorInRangeAfterOnEvent ==
  last.op = "OnEvent" =>
    (0 <= cursor_position /\ cursor_position <= Len(content))

\* An OnEvent call that started with the cursor beyond the end of the buffer
\* and inserted a character.
C1_Witness ==
  /\ last.op = "OnEvent"
  /\ last.event = "Character"
  /\ last.pre_cursor > Len(last.pre_content)
  /\ content # last.pre_content

\* C2: after every Render call, the placeholder path included,
\* 0 <= cursor <= len(content).
C2_CursorInRangeAfterRender ==
  last.op = "Render" =>
    (0 <= cursor_position /\ cursor_position <= Len(content))

\* C3: an OnEvent call that starts with len(content) <= max_input_len ends
\* with len(content) <= max_input_len.
C3_LengthWithinMax ==
  (last.op = "OnEvent" /\ Len(last.pre_content) <= max_input_len) =>
    Len(content) <= max_input_len

\* C4: every OnEvent call that changes the buffer invokes on_change.
C4_OnChangeOnEveryMutation ==
  (last.op = "OnEvent" /\ content # last.pre_content) => Calls("on_change") >= 1

\* C5: a character event with len(content) >= max_input_len, in either mode
\* and at any cursor, leaves content and cursor as they were, invokes no
\* callback and is reported handled.
C5_RejectedInsert ==
  (/\ last.op = "OnEvent"
   /\ last.event = "Character"
   /\ Len(last.pre_content) >= max_input_len) =>
    /\ content = last.pre_content
    /\ cursor_position = ClampedPreCursor
    /\ last.calls = <<>>
    /\ last.handled = TRUE

\* A rejected character in overwrite mode with a glyph under the cursor.
C5_Witness ==
  /\ last.op = "OnEvent"
  /\ last.event = "Character"
  /\ Len(last.pre_content) >= max_input_len
  /\ ~insert
  /\ 0 <= last.pre_cursor
  /\ last.pre_cursor < Len(last.pre_content)
  /\ last.pre_content[last.pre_cursor + 1] # NL
  /\ last.handled

\* C6: a character event C in insert mode with room and cursor P: the bytes
\* before P stay, C follows them, the bytes from P on follow C; the cursor is
\* P + len(C); on_change is invoked exactly once; the event is handled.
C6_InsertModeInsertion ==
  (/\ last.op = "OnEvent"
   /\ last.event = "Character"
   /\ insert
   /\ Len(last.pre_content) < max_input_len) =>
    LET P == ClampedPreCursor
        C == last.character
        old == last.pre_content
    IN  /\ Len(content) = Len(old) + Len(C)
        /\ \A i \in 1..P : content[i] = old[i]
        /\ \A i \in 1..Len(C) : content[P + i] = C[i]
        /\ \A i \in (P + 1)..Len(old) : content[i + Len(C)] = old[i]
        /\ cursor_position = P + Len(C)
        /\ last.calls = <<"on_change">>
        /\ last.handled = TRUE

\* A two-byte character inserted in front of the last byte of a two-byte buffer.
C6_Witness ==
  /\ last.op = "OnEvent"
  /\ last.event = "Character"
  /\ insert
  /\ Len(last.pre_content) = 2
  /\ Len(last.pre_content) < max_input_len
  /\ last.pre_cursor = 1
  /\ Len(last.character) = 2
  /\ Len(content) = 4

\* C7: a character event C in overwrite mode with room and cursor P: when P
\* is before the end and the byte at P is not a newline, the bytes
\* [P, nextBoundary(P)) are replaced by C; otherwise C is inserted at P. The
\* cursor is P + len(C) in both cases.
C7_OverwriteModeInsertion ==
  (/\ last.op = "OnEvent"
   /\ last.event = "Character"
   /\ ~insert
   /\ Len(last.pre_content) < max_input_len) =>
    LET P == ClampedPreCursor
        C == last.character
        old == last.pre_content
        E == IF P < Len(old) /\ old[P + 1] # NL THEN GlyphNext(old, P) ELSE P
    IN  /\ P <= E
        /\ E <= Len(old)
        /\ Len(content) = Len(old) - (E - P) + Len(C)
        /\ \A i \in 1..P : content[i] = old[i]
        /\ \A i \in 1..Len(C) : content[P + i] = C[i]
        /\ \A i \in (E + 1)..Len(old) : content[i - (E - P) + Len(C)] = old[i]
        /\ cursor_position = P + Len(C)

\* A one-byte character typed over a two-byte glyph that other bytes follow.
C7_Witness ==
  /\ last.op = "OnEvent"
  /\ last.event = "Character"
  /\ ~insert
  /\ Len(last.pre_content) < max_input_len
  /\ last.pre_cursor = 0
  /\ Len(last.pre_content) = 2
  /\ IsLead2(last.pre_content[1])
  /\ IsContinuation(last.pre_content[2])
  /\ Len(last.character) = 1
  /\ content = last.character

\* C8: every Return event invokes on_enter exactly once and is handled; with
\* multiline off it leaves content and cursor as they were and does not
\* invoke on_change.
C8_ReturnInvokesOnEnter ==
  (last.op = "OnEvent" /\ last.event = "Return") =>
    /\ Calls("on_enter") = 1
    /\ last.handled = TRUE
    /\ ~multiline =>
         /\ content = last.pre_content
         /\ cursor_position = ClampedPreCursor
         /\ Calls("on_change") = 0

\* A Return with multiline on whose newline the length check rejected.
C8_Witness ==
  /\ last.op = "OnEvent"
  /\ last.event = "Return"
  /\ multiline
  /\ Len(last.pre_content) >= max_input_len
  /\ content = last.pre_content
  /\ last.calls = <<"on_enter">>

\* C9: HandleBackspace with the cursor at 0 and HandleDelete with the cursor
\* at len(content) leave content and cursor as they were and return false.
C9_DeleteAtEdgeNotHandled ==
  /\ (last.op = "HandleBackspace" /\ last.pre_cursor = 0) =>
       /\ content = last.pre_content
       /\ cursor_position = last.pre_cursor
       /\ last.handled = FALSE
  /\ (last.op = "HandleDelete" /\ last.pre_cursor = Len(last.pre_content)) =>
       /\ content = last.pre_content
       /\ cursor_position = last.pre_cursor
       /\ last.handled = FALSE

\* HandleDelete called at the end of a non-empty buffer.
C9_Witness ==
  /\ last.op = "HandleDelete"
  /\ last.pre_content # <<>>
  /\ last.pre_cursor = Len(last.pre_content)
  /\ ~last.handled

\* C10: an OnEvent call that starts from a buffer of whole code points with
\* the cursor on a code-point boundary ends with a buffer of whole code
\* points and the cursor at the start of a code point or at len(content).
C10_CursorOnBoundary ==
  (/\ last.op = "OnEvent"
   /\ WellFormed(last.pre_content)
   /\ IsBoundary(last.pre_content, last.pre_cursor)) =>
    /\ WellFormed(content)
    /\ IsBoundary(content, cursor_position)

\* A Backspace that removed a two-byte code point.
C10_Witness ==
  /\ last.op = "OnEvent"
  /\ last.event = "Backspace"
  /\ WellFormed(last.pre_content)
  /\ IsBoundary(last.pre_content, last.pre_cursor)
  /\ last.pre_cursor >= 2
  /\ IsContinuation(last.pre_content[last.pre_cursor])
  /\ Len(content) = Len(last.pre_content) - 2
  /\ cursor_position = last.pre_cursor - 2

\* The lines joined with one '\n' between two consecutive lines.
RECURSIVE Join(_)
Join(lines) ==
  IF lines = <<>> THEN <<>>
  ELSE IF Len(lines) = 1 THEN lines[1]
  ELSE lines[1] \o <<NL>> \o Join(Tail(lines))

\* The code points of a buffer of whole code points: its bytes that are not
\* continuation bytes.
CodePoints(buffer) ==
  Cardinality({i \in 1..Len(buffer) : ~IsContinuation(buffer[i])})

\* The bytes given to text() for one element, all its parts together.
RECURSIVE Flatten(_)
Flatten(texts) ==
  IF texts = <<>> THEN <<>> ELSE texts[1] \o Flatten(Tail(texts))

\* C11: for every non-empty buffer Render splits, the lines joined with a
\* single newline are the buffer again.
C11_SplitJoinRoundTrip ==
  (last.op = "Render" /\ last.split_called /\ last.split_input # <<>>) =>
    Join(last.lines) = last.split_input

\* A buffer of two newlines, split into three empty lines.
C11_Witness ==
  /\ last.op = "Render"
  /\ last.split_called
  /\ last.split_input = <<NL, NL>>
  /\ last.lines = << <<>>, <<>>, <<>> >>

\* C12: a Render call on an empty buffer takes the placeholder path and does
\* not reach Split, whatever the placeholder is.
C12_SplitNeverOnEmpty ==
  (last.op = "Render" /\ last.pre_content = <<>>) =>
    (last.is_placeholder /\ ~last.split_called)

\* C13: in password mode the text rendered for each line of a buffer of
\* whole code points is one mask character per code point of the line.
C13_PasswordOneMaskPerCodePoint ==
  (/\ last.op = "Render"
   /\ last.split_called
   /\ last.password
   /\ last.lines # <<>>
   /\ WellFormed(last.split_input)) =>
    \A i \in 1..Len(last.lines) :
      LET shown == Flatten(last.elements[i].texts)
      IN  /\ Len(shown) = CodePoints(last.lines[i]) * Len(PasswordChar)
          /\ \A k \in 1..Len(shown) : shown[k] = PasswordChar[1]

\* C14: on an empty buffer with a non-empty placeholder the fragment is the
\* placeholder text carrying the focused decorator of the styling rule,
\* it goes to the transform with is_placeholder = true and no element carries
\* the cursor box.
C14_PlaceholderStyled ==
  (last.op = "Render" /\ last.pre_content = <<>> /\ Len(placeholder) > 0) =>
    /\ last.is_placeholder
    /\ Len(last.elements) = 1
    /\ last.elements[1].texts = <<placeholder>>
    /\ last.elements[1].cursor_cell = "none"
    /\ last.focused = (IF ~last.is_focused /\ ~hovered_
                       THEN "select" ELSE "focusCursorUnderline")
    /\ last.elements[1].styled

\* C15: ArrowUp and ArrowDown are not handled exactly when the clamped cursor
\* is len(content); any other unrouted event is not handled; all three leave
\* content as it was, the cursor at its clamped value, and invoke no callback.
C15_ArrowsAndOtherEvents ==
  (last.op = "OnEvent" /\ last.event \in {"ArrowUp", "ArrowDown", "Other"}) =>
    /\ content = last.pre_content
    /\ cursor_position = ClampedPreCursor
    /\ last.calls = <<>>
    /\ last.event \in {"ArrowUp", "ArrowDown"} =>
         (last.handled <=> ClampedPreCursor # Len(last.pre_content))
    /\ last.event = "Other" => ~last.handled

\* An ArrowUp with the cursor before the end of the buffer, reported handled.
C15_Witness ==
  /\ last.op = "OnEvent"
  /\ last.event = "ArrowUp"
  /\ 0 <= last.pre_cursor
  /\ last.pre_cursor < Len(last.pre_content)
  /\ last.handled

\* The bytes of the first k lines, each with its separator.
RECURSIVE LinesBefore(_, _)
LinesBefore(lines, k) ==
  IF k = 0 THEN 0 ELSE LinesBefore(lines, k - 1) + Len(lines[k]) + 1

\* C16: for a non-empty buffer, its lines and the clamped cursor c, the
\* located (cursor_line, cursor_char_index) names a line, an offset within
\* it, adds up to c, and no earlier line holds c: a cursor on a newline byte
\* is at the end of the line before it.
C16_CursorLocated ==
  (last.op = "Render" /\ last.split_called /\ last.split_input # <<>>) =>
    LET lines == last.lines
        c == cursor_position
        l == last.cursor_line
        o == last.cursor_char_index
    IN  /\ 0 <= l
        /\ l < Len(lines)
        /\ 0 <= o
        /\ o <= Len(lines[l + 1])
        /\ c = LinesBefore(lines, l) + o
        /\ \A k \in 0..(l - 1) : c - LinesBefore(lines, k) > Len(lines[k + 1])

\* A cursor on the newline byte between two lines, located at the end of the
\* first.
C16_Witness ==
  /\ last.op = "Render"
  /\ last.split_called
  /\ Len(last.lines) >= 2
  /\ Len(last.lines[1]) >= 1
  /\ cursor_position = Len(last.lines[1])
  /\ last.split_input[cursor_position + 1] = NL
  /\ last.cursor_line = 0
  /\ last.cursor_char_index = Len(last.lines[1])

\* C17: HandleBackspace with cursor P > 0 erases exactly
\* [previousBoundary(P), P), leaves the cursor at previousBoundary(P) and
\* returns true; HandleDelete with P < len(content) erases exactly
\* [P, nextBoundary(P)), leaves the cursor at P and returns true; the other
\* bytes keep their order and the buffer never grows.
C17_DeleteErasesOneGlyph ==
  /\ (last.op = "HandleBackspace" /\ last.pre_cursor > 0) =>
       LET old == last.pre_content
           P == last.pre_cursor
           B == GlyphPrevious(old, P)
       IN  /\ 0 <= B
           /\ B < P
           /\ Len(content) = Len(old) - (P - B)
           /\ \A i \in 1..B : content[i] = old[i]
           /\ \A i \in (P + 1)..Len(old) : content[i - (P - B)] = old[i]
           /\ cursor_position = B
           /\ last.handled
  /\ (last.op = "HandleDelete" /\ last.pre_cursor < Len(last.pre_content)) =>
       LET old == last.pre_content
           P == last.pre_cursor
           E == GlyphNext(old, P)
       IN  /\ P < E
           /\ E <= Len(old)
           /\ Len(content) = Len(old) - (E - P)
           /\ \A i \in 1..P : content[i] = old[i]
           /\ \A i \in (E + 1)..Len(old) : content[i - (E - P)] = old[i]
           /\ cursor_position = P
           /\ last.handled
  /\ last.op \in {"HandleBackspace", "HandleDelete"} =>
       Len(content) <= Len(last.pre_content)

\* HandleDelete on a two-byte glyph that a byte follows.
C17_Witness ==
  /\ last.op = "HandleDelete"
  /\ Len(last.pre_content) = 3
  /\ last.pre_cursor = 0
  /\ IsLead2(last.pre_content[1])
  /\ IsContinuation(last.pre_content[2])
  /\ ~IsContinuation(last.pre_content[3])
  /\ content = <<last.pre_content[3]>>
  /\ last.handled

\* C18: a Return with multiline on and room inserts one newline byte at the
\* clamped cursor P (over the glyph at P in overwrite mode under the
\* overwrite rule), leaves the cursor at P + 1 and invokes on_change once and
\* then on_enter; without room it changes nothing and invokes on_enter only.
C18_MultilineReturn ==
  (last.op = "OnEvent" /\ last.event = "Return" /\ multiline) =>
    LET P == ClampedPreCursor
        old == last.pre_content
        E == IF ~insert /\ P < Len(old) /\ old[P + 1] # NL
             THEN GlyphNext(old, P) ELSE P
    IN  IF Len(old) < max_input_len
        THEN /\ Len(content) = Len(old) - (E - P) + 1
             /\ \A i \in 1..P : content[i] = old[i]
             /\ content[P + 1] = NL
             /\ \A i \in (E + 1)..Len(old) : content[i - (E - P) + 1] = old[i]
             /\ cursor_position = P + 1
             /\ last.calls = <<"on_change", "on_enter">>
        ELSE /\ content = old
             /\ cursor_position = P
             /\ last.calls = <<"on_enter">>

\* A Return with multiline on that put a newline between two bytes.
C18_Witness ==
  /\ last.op = "OnEvent"
  /\ last.event = "Return"
  /\ multiline
  /\ insert
  /\ Len(last.pre_content) = 2
  /\ last.pre_cursor = 1
  /\ Len(content) = 3
  /\ content[2] = NL
  /\ last.calls = <<"on_change", "on_enter">>

\* C19: in insert mode, a Backspace right after a character event that
\* inserted one whole code point into a buffer of whole code points, with
\* the cursor on a boundary, restores the content and the cursor of before
\* the insertion and is reported handled.
C19_InsertThenBackspace ==
  (/\ last.op = "OnEvent"
   /\ last.event = "Backspace"
   /\ last.inserted.valid
   /\ insert
   /\ WellFormed(last.inserted.pre_content)
   /\ IsBoundary(last.inserted.pre_content, last.inserted.pre_cursor)) =>
    /\ content = last.inserted.pre_content
    /\ cursor_position = last.inserted.pre_cursor
    /\ last.handled

\* A two-byte code point inserted inside a buffer and removed again.
C19_Witness ==
  /\ last.op = "OnEvent"
  /\ last.event = "Backspace"
  /\ last.inserted.valid
  /\ insert
  /\ Len(last.inserted.character) = 2
  /\ Len(last.inserted.pre_content) = 2
  /\ last.inserted.pre_cursor = 1
  /\ WellFormed(last.inserted.pre_content)
  /\ Len(last.pre_content) = 4
  /\ content = last.inserted.pre_content

\* C20 as stated: one OnEvent call invokes on_change at most once and
\* on_enter at most once, on_enter only for Return, and on_change never when
\* the call leaves the buffer as it was.
C20_NoOnChangeWhenContentUnchanged ==
  last.op = "OnEvent" =>
    /\ Calls("on_change") <= 1
    /\ Calls("on_enter") <= 1
    /\ Calls("on_enter") >= 1 => last.event = "Return"
    /\ content = last.pre_content => Calls("on_change") = 0

\* The last OnEvent call made no change to the buffer: a rejected insertion,
\* a Backspace at cursor 0, an arrow, an unrouted event or a Return with
\* multiline off.
NoMutationEvent ==
  \/ last.event = "Character" /\ Len(last.pre_content) >= max_input_len
  \/ last.event = "Return" /\ multiline /\ Len(last.pre_content) >= max_input_len
  \/ last.event = "Return" /\ ~multiline
  \/ last.event = "Backspace" /\ ClampedPreCursor = 0
  \/ last.event \in {"ArrowUp", "ArrowDown", "Other"}

\* C20 amended: one OnEvent call invokes on_change at most once and on_enter
\* at most once, on_enter only for Return, and on_change never for an event
\* that makes no change to the buffer (rejected insertion, Backspace at
\* cursor 0, arrows, unrouted events, Return with multiline off).
C20_CallbackDiscipline ==
  last.op = "OnEvent" =>
    /\ Calls("on_change") <= 1
    /\ Calls("on_enter") <= 1
    /\ Calls("on_enter") >= 1 => last.event = "Return"
    /\ NoMutationEvent => (Calls("on_change") = 0 /\ content = last.pre_content)

\* A character typed in overwrite mode over an identical glyph: the buffer
\* is equal to what it was and on_change was invoked.
C20_Witness ==
  /\ last.op = "OnEvent"
  /\ last.event = "Character"
  /\ ~insert
  /\ last.pre_content # <<>>
  /\ content = last.pre_content
  /\ last.calls = <<"on_change">>

====
